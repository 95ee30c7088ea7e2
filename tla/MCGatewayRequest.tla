-------------------------- MODULE MCGatewayRequest --------------------------
(* Small instances of GatewayRequest for TLC. *)
EXTENDS GatewayRequest

CONSTANTS r1, r2, r3, p1, w1, vk1, pk1, pk2

MCRank == [k \in ProviderKeys |-> IF k = pk1 THEN 1 ELSE 2]

\* Every request comes with the key of the one project.
MCKeyOf == [r \in Requests |-> vk1]
MCProjectOf == [r \in Requests |-> p1]
MCWalletOf == [p \in Projects |-> w1]

MCNoVkLimit == [k \in VirtualKeys |-> 0]
MCVkLimit == [k \in VirtualKeys |-> 1]
MCNoPkLimit == [k \in ProviderKeys |-> 0]
MCPkLimit == [k \in ProviderKeys |-> IF k = pk1 THEN 1 ELSE 0]

MCCredit == [w \in Wallets |-> 3]
MCCreditTwo == [w \in Wallets |-> 2]
MCBudget == [p \in Projects |-> 10]
=============================================================================
