------------------------------ MODULE MCGroups ------------------------------
(***************************************************************************)
(* Instances of Groups, Contents and Retention.                            *)
(***************************************************************************)
EXTENDS Retention, TLC

\* What goes on in one behaviour: links; comments on what may go; receipts on
\* what may go; an import among other entries; the purge.
MCMixes ==
  {[ops |-> {"create", "invite", "join", "delete"}, calls |-> 2, purges |-> 0],
   [ops |-> {"invite", "patch"}, calls |-> 2, purges |-> 0],
   [ops |-> {"settle", "comment", "uncomment", "delete"}, calls |-> 2, purges |-> 0],
   [ops |-> {"scan", "add", "edit", "delete"}, calls |-> 2, purges |-> 0],
   [ops |-> {"import", "settle", "remove"}, calls |-> 2, purges |-> 0],
   [ops |-> {"import", "delete"}, calls |-> 2, purges |-> 0],
   [ops |-> {"scan", "add", "remove", "delete"}, calls |-> 1, purges |-> 1],
   [ops |-> {"add", "remove", "comment"}, calls |-> 1, purges |-> 1],
   [ops |-> {"add", "remove"}, calls |-> 1, purges |-> 2]}

MCSymmetry ==
  Permutations(Users) \cup Permutations(InviteTokens) \cup Permutations(Workers)
    \cup Permutations(Entries) \cup Permutations(Images) \cup Permutations(Instances)

=============================================================================
