---------------------------- MODULE MC_Channels ----------------------------
EXTENDS Channels

Look(from, group, mention, media) ==
  [from |-> from, group |-> group, mention |-> mention, media |-> media]

IdsVal == 1..2
AnswersVal == {[media |-> 1, text |-> 1]}

\* All channels but Mochat.
ShapesVal == {Look("user", FALSE, FALSE, FALSE), Look("user", FALSE, FALSE, TRUE),
              Look("user", TRUE, TRUE, FALSE), Look("user", TRUE, FALSE, FALSE),
              Look("stranger", FALSE, FALSE, FALSE)}
PoliciesVal == {"open", "mention"}
EnabledVal == {"telegram", "discord", "matrix", "email", "feishu", "qq",
               "whatsapp", "dingtalk", "slack"}
RepliesVal == [ch \in EnabledVal |-> IF ch \in {"telegram", "discord", "matrix", "qq"} THEN 2 ELSE 1]

\* Mochat, whose session, panel and poll make a state space of their own.
MochatShapes == {Look("user", FALSE, FALSE, FALSE),
                 Look("user", TRUE, TRUE, FALSE), Look("user", TRUE, FALSE, FALSE)}
MochatPolicies == {"delay"}
MochatEnabled == {"mochat"}
MochatReplies == [ch \in MochatEnabled |-> 0]
=============================================================================
