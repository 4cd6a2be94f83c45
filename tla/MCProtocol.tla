----------------------------- MODULE MCProtocol ------------------------------
(* Containers whose answers are prompt, slow or never come.                   *)
EXTENDS ContainerProtocolProperties

Malleable ==
    [malleable |-> TRUE, prompt |-> TRUE, crashes |-> FALSE, no_epochs |-> FALSE, updates |-> 2]
NoEpochs == [Malleable EXCEPT !.no_epochs = TRUE, !.updates = 0]
Hostile ==
    [malleable |-> FALSE, prompt |-> FALSE, crashes |-> TRUE, no_epochs |-> FALSE, updates |-> 1]

AllWorlds == {Malleable, NoEpochs, Hostile}
MalleableWorld == {Malleable}

SomeUpdates == { [inter |-> 0, intra |-> 1], [inter |-> 2, intra |-> 3] }
FirstThreads == [inter |-> 1, intra |-> 2]
=============================================================================
