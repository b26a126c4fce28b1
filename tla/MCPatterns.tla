----------------------------- MODULE MCPatterns -----------------------------
(***************************************************************************)
(* Patterns for TLC.  The liveness of the pirates is checked in MCServers. *)
(***************************************************************************)
EXTENDS Patterns

\* The pirate client makes two requests with three tries each; with the
\* paranoid queue one, which it gives up at the first timeout.
Retries == [lazy |-> 3, simple |-> 3, paranoid |-> 1]
RequestCounts == [lazy |-> 2, simple |-> 2, paranoid |-> 1]

\* Five updates have any keys.  More, which take the number past the range of
\* kvmsg_sequence, have all the same.
FewKeys == sequence <= 5 \/ \A n \in 1..sequence : key[n] = key[1]

BoundedSpec ==
    PatternsInit /\ [][PatternsNext /\ FewKeys']_<<pattern, vars, pirateVars, chatVars>>
=============================================================================
