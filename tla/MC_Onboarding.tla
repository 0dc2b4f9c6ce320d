----------------------------- MODULE MC_Onboarding -----------------------------
(* One chat with an SO101, a PiperX or a robot nobody knows. *)
EXTENDS Onboarding

Say(f) == [k \in DOMAIN NoMessage |-> IF k \in DOMAIN f THEN f[k] ELSE NoMessage[k]]

MCMessages ==
  {Say([robot |-> "so101", change |-> "add", mounts |-> <<"wrist", "overhead">>]),
   Say([robot |-> "other"]),
   Say([robot |-> "piperx", connected |-> "yes"]),
   Say([connected |-> "yes", calibrate |-> TRUE]),
   Say([change |-> "replace", mounts |-> <<"wrist", "overhead">>]),
   Say([serial |-> "tty"]), Say([ros2 |-> "yes"]),
   Say([step |-> TRUE]), Say([sim |-> TRUE, viewer |-> TRUE])}

\* A file of the user's own that does not load, next to those of the setup.
MCHandMade ==
  {[kind |-> "assembly", id |-> "mine", asm |-> "mine", target |-> "real", serial |-> "none",
    mounts |-> <<>>, defect |-> "import", rank |-> 0, ours |-> FALSE]}
=============================================================================
