------------------------------ MODULE MCLayout ------------------------------
(* Two outputs, and names whose workspaces open on the second of them. *)
EXTENDS Layout, TLC

CONSTANTS eDP, HDMI, w1, w2, chat, mail

MCOutput == {eDP, HDMI}
MCWindow == {w1, w2}
MCName == {chat}
MCMaxWorkspaces == [o \in Output |-> IF o = eDP THEN 3 ELSE 1]
MCAtMostThree == [o \in Output |-> 3]
MCNames == {chat, mail}
MCOpenOnOutput == [n \in Name |-> HDMI]
WindowSymmetry == Permutations(MCWindow)
=============================================================================
