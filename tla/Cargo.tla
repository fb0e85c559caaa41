------------------------------- MODULE Cargo --------------------------------
(***************************************************************************)
(* Agents sent between nodes (src/cargo.rs, and the cargo events of        *)
(* src/gossip.rs): the engine's table of statuses, and the list of offers  *)
(* that wait for the operator.                                             *)
(*                                                                         *)
(* The two are not connected: an offer that arrives goes to the list only, *)
(* the operator's decision goes nowhere else, and the answer sent back at  *)
(* once ("awaiting_approval", accepted: false) is handled by the engine of *)
(* the sender like a refusal.  Peers send cargo.ack and cargo.confirm for  *)
(* any cargo at any time: late, twice, or for one they never saw.          *)
(***************************************************************************)
EXTENDS Naturals, Sequences, SequencesExt

CONSTANTS
    Cargos,
    MaxOffers       \* bound: offers that wait for the operator

VARIABLES
    incoming,       \* cargos the engine stores; the outgoing are never read
    cargoStatus,    \* the engine's statuses, Unknown without one
    pendingCargo,   \* pending_cargo of the gossip engine
    listing         \* what /cargo printed, until the next decision

engineVars == <<incoming, cargoStatus>>
operatorVars == <<pendingCargo, listing>>
cargoVars == <<incoming, cargoStatus, pendingCargo, listing>>

CargoInit ==
    /\ incoming = {}
    /\ cargoStatus = [c \in Cargos |-> "Unknown"]
    /\ pendingCargo = <<>> /\ listing = <<>>

(* AwaitingSend and RequestSent are never assigned, so cargo.request is    *)
(* always denied and changes nothing.                                      *)
CargoStatus == {"OfferSent", "AcceptancePending", "Transferring", "TransferPaused"}
is_terminal == {"Landed", "Recalled", "Expired", "OfferRejected"}

(* Mutant: an offer is acknowledged by whoever made or got it.             *)
AnswerEitherSide(c, new) == cargoStatus' =
    [cargoStatus EXCEPT ![c] = IF @ \in {"AcceptancePending", "OfferSent"} THEN new ELSE @]
(* Mutant: an acknowledgement always decides.                              *)
AnswerAlways(c, new) == cargoStatus' =
    [cargoStatus EXCEPT ![c] = IF @ = "Unknown" THEN @ ELSE new]
(* accept_cargo and reject_cargo move only a cargo that is pending here.   *)
Answer(c, new) == cargoStatus' =
    [cargoStatus EXCEPT ![c] = IF @ = "AcceptancePending" THEN new ELSE @]

-----------------------------------------------------------------------------
(* The engine.                                                             *)

push_offer(c) ==
    /\ cargoStatus' = [cargoStatus EXCEPT ![c] = "OfferSent"]
    /\ UNCHANGED <<incoming, operatorVars>>

store_incoming(c) ==
    /\ incoming' = incoming \cup {c}
    /\ cargoStatus' = [cargoStatus EXCEPT ![c] = "AcceptancePending"]
    /\ UNCHANGED operatorVars

set_paused(c) ==
    /\ cargoStatus[c] = "Transferring"
    /\ cargoStatus' = [cargoStatus EXCEPT ![c] = "TransferPaused"]
    /\ UNCHANGED <<incoming, operatorVars>>

expire(c) ==
    /\ cargoStatus' = [cargoStatus EXCEPT ![c] = "Expired"]
    /\ incoming' = incoming \ {c}
    /\ UNCHANGED operatorVars

-----------------------------------------------------------------------------
(* Messages of peers.                                                      *)

CargoAck(c, accepted) ==
    /\ Answer(c, IF accepted THEN "Transferring" ELSE "OfferRejected")
    /\ UNCHANGED <<incoming, operatorVars>>

(* confirm_landed asks nothing: a cargo never heard of lands as well.      *)
CargoConfirm(c) ==
    /\ cargoStatus' = [cargoStatus EXCEPT ![c] = "Landed"]
    /\ UNCHANGED <<incoming, operatorVars>>

(* Mutant: the newest offer is listed first.                               *)
CargoOfferFirst(c) ==
    /\ Len(pendingCargo) < MaxOffers
    /\ pendingCargo' = <<c>> \o pendingCargo
    /\ UNCHANGED <<engineVars, listing>>
(* Offers are neither deduplicated nor limited.                            *)
CargoOffer(c) ==
    /\ Len(pendingCargo) < MaxOffers
    /\ pendingCargo' = Append(pendingCargo, c)
    /\ UNCHANGED <<engineVars, listing>>

-----------------------------------------------------------------------------
(* The operator, who decides by the index that /cargo printed.             *)

List ==
    /\ listing' = pendingCargo
    /\ UNCHANGED <<engineVars, pendingCargo>>

(* /cargo approve i and /cargo reject i do the same: the offer is dropped. *)
Decide(i) ==
    /\ i \in DOMAIN pendingCargo
    /\ pendingCargo' = RemoveAt(pendingCargo, i)
    /\ listing' = <<>>
    /\ UNCHANGED engineVars

CargoNext ==
    \/ \E c \in Cargos :
        \/ push_offer(c) \/ store_incoming(c) \/ set_paused(c) \/ expire(c)
        \/ CargoConfirm(c) \/ CargoOffer(c)
        \/ \E accepted \in BOOLEAN : CargoAck(c, accepted)
    \/ List
    \/ \E i \in 1..MaxOffers : Decide(i)

CargoSpec == CargoInit /\ [][CargoNext]_cargoVars

-----------------------------------------------------------------------------
(* Late and repeated acknowledgements never bring a finished cargo back:   *)
(* only a new offer does (accept_cargo and reject_cargo ask for            *)
(* AcceptancePending; set_paused for Transferring).                        *)
NoRevival == [][\A c \in Cargos :
    cargoStatus[c] \in is_terminal /\ cargoStatus'[c] \notin is_terminal =>
        cargoStatus'[c] \in {"OfferSent", "AcceptancePending"}]_cargoVars

(* Whatever peers answer, only a cargo stored here is transferred or       *)
(* refused: the offer a node made itself is moved by no answer.            *)
OnlyReceivedMoves == \A c \in Cargos :
    cargoStatus[c] \in {"Transferring", "TransferPaused", "OfferRejected"} => c \in incoming

(* While offers keep arriving, the first decision after a listing takes    *)
(* the offer the operator saw at that index.                               *)
ListingHolds == IsPrefix(listing, pendingCargo)
=============================================================================
