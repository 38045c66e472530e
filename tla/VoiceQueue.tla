----------------------------- MODULE VoiceQueue -----------------------------
(***************************************************************************)
(* What the speech queue promises, without files, locks or polling: one    *)
(* voice, given to one clip at a time; within a conversation, clips get it *)
(* in the order they were submitted, except that an urgent one goes first. *)
(* SpeechLock implements this (SpeechLock!Voice) as long as nobody gives   *)
(* up on a busy or stalled holder, no hold takes the voice back and no     *)
(* entry outlives its TTL.                                                 *)
(***************************************************************************)
EXTENDS Naturals

CONSTANTS Clips, NoSession, SessionOf, Urgent

VARIABLES
  stage,   \* "away", "rendering", "asking", "voice" or "over"
  seq      \* order of submission, 0 before it

vars == <<stage, seq>>

Same(c, d) == SessionOf[c] # NoSession /\ SessionOf[c] = SessionOf[d]

Init ==
  /\ stage = [c \in Clips |-> "away"]
  /\ seq = [c \in Clips |-> 0]

Move(c, to) == stage' = [stage EXCEPT ![c] = to]

\* Submitted after every clip submitted so far.
Submit(c) ==
  /\ stage[c] = "away" /\ seq[c] = 0
  /\ seq' \in [Clips -> Nat]
  /\ \A d \in Clips \ {c} : seq'[d] = seq[d] /\ seq[d] < seq'[c]
  /\ UNCHANGED stage \/ Move(c, "asking")

Announce(c) ==
  /\ stage[c] = "away" /\ seq[c] # 0
  /\ Move(c, "rendering") \/ Move(c, "asking")
  /\ UNCHANGED seq

Ask(c) ==
  /\ stage[c] = "rendering"
  /\ Move(c, "asking")
  /\ UNCHANGED seq

\* Nobody of the clip's conversation has a better claim to be heard first.
FirstOfItsSession(c) ==
  \A d \in Clips \ {c} :
    Same(c, d) =>
      /\ stage[d] = "asking" => d \notin Urgent
      /\ stage[d] \in {"rendering", "asking"} => seq[d] >= seq[c]

TakeVoice(c) ==
  /\ stage[c] = "asking"
  /\ \A d \in Clips : stage[d] # "voice"
  /\ c \in Urgent \/ FirstOfItsSession(c)
  /\ Move(c, "voice")
  /\ UNCHANGED seq

\* The voice is given up half way only for someone who is asking for it.
GiveWay(c) ==
  /\ stage[c] = "voice"
  /\ \E d \in Clips \ {c} : stage[d] = "asking"
  /\ Move(c, "away")
  /\ UNCHANGED seq

End(c) ==
  /\ stage[c] # "over"
  /\ Move(c, "over")
  /\ UNCHANGED seq

Next ==
  \E c \in Clips : \/ Submit(c) \/ Announce(c) \/ Ask(c)
                   \/ TakeVoice(c) \/ GiveWay(c) \/ End(c)

Spec == Init /\ [][Next]_vars

\* One voice at a time.
OneSpeaker ==
  \A c, d \in Clips : stage[c] = "voice" /\ stage[d] = "voice" => c = d
=============================================================================
