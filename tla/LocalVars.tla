------------------------------ MODULE LocalVars ------------------------------
(***************************************************************************)
(* What local variables promise to a Forth program: every activation of a  *)
(* word owns its variables, whatever registers and cells they live in.     *)
(***************************************************************************)
EXTENDS Integers, Sequences, SequencesExt

VARIABLES
    frames,   \* variables of each activation, innermost last
    top       \* top of the data stack

lvars == <<frames, top>>

Own == Last(frames)
WithOwn(f) == Append(Front(frames), f)

(* a word that declared no local variables owns none *)
NoVars == <<>>

LInit == frames = <<NoVars>> /\ top \in Int

LCompute == top' \in Int /\ UNCHANGED frames

LCall == frames' = Append(frames, NoVars) /\ UNCHANGED top
LReturn ==
    /\ Len(frames) > 1 /\ Own = NoVars
    /\ frames' = Front(frames)
    /\ UNCHANGED top

(* the variables start with any value *)
LDeclare ==
    /\ Own = NoVars /\ Len(frames') = Len(frames)
    /\ Front(frames') = Front(frames)
    /\ Last(frames') # NoVars
    /\ UNCHANGED top
LForget == Own # NoVars /\ frames' = WithOwn(NoVars) /\ UNCHANGED top

LFetch ==
    \E i \in DOMAIN Own : top' = Own[i] /\ UNCHANGED frames
LStore ==
    /\ \E i \in DOMAIN Own : frames' = WithOwn([Own EXCEPT ![i] = top])
    /\ top' \in Int

LNext ==
    \/ LCompute \/ LCall \/ LReturn \/ LDeclare \/ LForget \/ LFetch \/ LStore

LSpec == LInit /\ [][LNext]_lvars
=============================================================================
