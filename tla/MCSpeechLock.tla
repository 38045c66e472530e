---------------------------- MODULE MCSpeechLock ----------------------------
(* Small instances of SpeechLock: two conversations, three or four clips. *)
EXTENDS SpeechLock

CONSTANTS A, B,            \* two conversations
          a1, a2, a3, b1,    \* replies: three of A, one of B
          t, r               \* a thinking read-out of B, a replay

MCSessionOf ==
  [c \in Clips |-> IF c \in {a1, a2, a3} THEN A
                   ELSE IF c \in {b1, t} THEN B ELSE NoSession]

MCKind ==
  [c \in Clips |-> IF c = r THEN "replay"
                   ELSE IF c = t THEN "thinking" ELSE "reply"]

\* A's ordinary reply and the question behind it, B's ordinary reply.
QuestionRanks ==
  [c \in Clips |-> IF c = a2 THEN HIGH
                   ELSE IF c = a3 THEN URGENT
                   ELSE IF c = r THEN REPLAY
                   ELSE IF c = t THEN LOW ELSE NORMAL]
=============================================================================
