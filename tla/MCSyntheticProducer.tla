------------------------ MODULE MCSyntheticProducer ------------------------
(* Instances of SyntheticProducer for TLC. *)
EXTENDS SyntheticProducer

\* One event of each of the two customers of the demo.
MCShortScenario == << DemoScenario[3], DemoScenario[1] >>
=============================================================================
