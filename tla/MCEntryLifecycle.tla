-------------------------- MODULE MCEntryLifecycle --------------------------
(* Units with both serials, one at 10100 only, and none; an entry whose stored
   restore mode is VPP, which set-up must not take (const.py:50-58). *)
EXTENDS EntryLifecycle

SomeIdentities == {[at10750 |-> "S", at10100 |-> "T"],
                   [at10750 |-> "none", at10100 |-> "T"],
                   [at10750 |-> "none", at10100 |-> "none"]}

HostPorts == [u \in Units |-> "host:502"]

Usual == [poll |-> 1, mode |-> 20, history |-> 0]

SomeOptions == {Usual, [poll |-> 2, mode |-> 3, history |-> 5]}
=============================================================================
