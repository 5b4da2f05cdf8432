---------------------------- MODULE MCSampleBoot ----------------------------
(* SampleBoot for TLC: three profiles of two characters, of which one has  *)
(* an SMSP and an SMSC and one an SMSC only; room for three characters.    *)
EXTENDS SampleBoot

CONSTANTS plain, address, full, x, y

MCProfiles == {plain, address, full}
MCSmspProfiles == {full}
MCSmscProfiles == {address, full}
MCChars == {x, y}
MCText == [p \in MCProfiles |-> CASE p = plain -> <<x, y>> [] p = address -> <<y, x>>
                                   [] OTHER -> <<y, y>>]

(* A build that receives its profile, one with a static profile and one    *)
(* with the factory reset whose static profile is refused.                 *)
ThreeBuilds == {[static |-> NULL, auto |-> TRUE, reset |-> FALSE],
                [static |-> full, auto |-> FALSE, reset |-> FALSE],
                [static |-> BAD, auto |-> TRUE, reset |-> TRUE]}

SerialBuild == {[static |-> NULL, auto |-> TRUE, reset |-> FALSE]}
=============================================================================
