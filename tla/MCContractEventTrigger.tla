----------------------- MODULE MCContractEventTrigger -----------------------
EXTENDS ContractEventTrigger

CONSTANTS k1, k2

Three == 1..3
Two == 1..2
(* Two disputes in one block and a third one later, or each in a block of  *)
(* its own, with an empty block between.                                   *)
OneBlockHasTwo == <<1, 1, 3>>
Apart == <<1, 3>>

Setting(subscribed, polls, kinds) ==
  [subscribed |-> subscribed, polls |-> polls, faults |-> kinds]

(* Polls that overlap; the subscription next to a poll.                    *)
AnyTrigger ==
  {Setting(FALSE, {k1, k2}, {"disk", "exit", "failure"}),
   Setting(TRUE, {k1}, {"disconnect", "exit", "failure", "stop"})}
Disconnecting == {Setting(TRUE, {k1}, {"disconnect"})}
PollingOnly == {Setting(FALSE, {k1}, {})}
=============================================================================
