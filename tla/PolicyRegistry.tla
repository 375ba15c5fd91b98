--------------------------- MODULE PolicyRegistry ---------------------------
(***************************************************************************)
(* contracts/src/PolicyRegistry.sol: the role table, the mutable protocol  *)
(* parameters and the epoch clock every other contract reads.              *)
(*                                                                         *)
(* A step of the system is one transaction or the production of a block;   *)
(* any number of transactions share a block height.  A transaction that    *)
(* reverts changes nothing, so each revert condition is the negation of a  *)
(* guard.  Who sends a transaction matters only through the role table:    *)
(* Authorized(role) says that some account could send it now.              *)
(***************************************************************************)
EXTENDS Integers, FiniteSets

CONSTANTS
    Accounts,        \* addresses that may hold a role
    GenesisBlock,    \* immutable genesisBlock
    BlocksPerEpoch,  \* immutable blocksPerEpoch
    StartBlock,      \* height of the deployment transactions
    MaxBlock,        \* bound: no block is produced above this height
    InitialRoles,    \* role grants of the deployment
    RoleChanges,     \* bound: the <<role, account>> pairs the owner may touch later
    InitialPolicy,   \* parameters given to the constructor
    Policies         \* bound: the parameter values setProtocolPolicy may install

Roles == {"MODEL_ADMIN", "TASK_ADMIN", "AUDITOR", "RECEIPT_OPERATOR", "CREDIT_OPERATOR"}

\* _setPolicy rejects a zero in any of the four parameters.
PolicyValue == [finalityDepth : Nat \ {0}, challengeWindow : Nat \ {0},
                beta : Nat \ {0}, cap : Nat \ {0}]

ASSUME PolicyAssumption ==
    /\ GenesisBlock \in Nat \ {0}
    /\ BlocksPerEpoch \in Nat \ {0}
    /\ StartBlock \in Nat
    /\ MaxBlock \in Nat /\ StartBlock <= MaxBlock
    /\ InitialRoles \subseteq Roles \X Accounts
    /\ RoleChanges \subseteq Roles \X Accounts
    /\ InitialPolicy \in PolicyValue
    /\ Policies \subseteq PolicyValue

VARIABLES
    blockNumber,     \* block.number
    roles,           \* _roles: the <<role, account>> pairs that hold
    policy           \* finalityDepth, challengeWindow, beta, cap

policyVars == <<blockNumber, roles, policy>>

PolicyTypeOK ==
    /\ blockNumber \in Nat
    /\ roles \subseteq Roles \X Accounts
    /\ policy \in PolicyValue

PolicyInit ==
    /\ blockNumber = StartBlock
    /\ roles = InitialRoles
    /\ policy = InitialPolicy

-----------------------------------------------------------------------------
EpochAt(height) ==
    IF height < GenesisBlock THEN 0
    ELSE ((height - GenesisBlock) \div BlocksPerEpoch) + 1

CurrentEpoch == EpochAt(blockNumber)

Authorized(role) == \E account \in Accounts : <<role, account>> \in roles

-----------------------------------------------------------------------------
NextBlock ==
    /\ blockNumber < MaxBlock
    /\ blockNumber' = blockNumber + 1
    /\ UNCHANGED <<roles, policy>>

GrantRole(role, account) ==
    /\ roles' = roles \cup {<<role, account>>}
    /\ UNCHANGED <<blockNumber, policy>>

RevokeRole(role, account) ==
    /\ roles' = roles \ {<<role, account>>}
    /\ UNCHANGED <<blockNumber, policy>>

SetProtocolPolicy(value) ==
    /\ policy' = value
    /\ UNCHANGED <<blockNumber, roles>>
=============================================================================
