------------------------------- MODULE MCBinding -------------------------------
EXTENDS BindingSupervisor

Mine == [serial |-> "mine", state |-> "device", id |-> 1]
Other == [serial |-> "other", state |-> "device", id |-> 2]

MCSnapshots == {<<>>, <<Other, Mine>>}
==============================================================================
