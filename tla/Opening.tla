-------------------------------- MODULE Opening --------------------------------
(***************************************************************************)
(* What becomes of a signal the engine acts on: its size, leverage and     *)
(* orders (Sizing). A process that sizes nothing is parked, as in          *)
(* Operator.                                                               *)
(***************************************************************************)
EXTENDS Integers, Sequences, FiniteSets

CONSTANTS
    NoTicket, NoSample,
    Rulebooks, Venues, Ideas, Portions, Purses, TicketBound, RenewalBound

VARIABLES rulebook, venue, fund, atRisk, issued, ticket, refusal, payloads, renewals

sizingVars == <<rulebook, venue, fund, atRisk, issued, ticket, refusal, payloads, renewals>>

S == INSTANCE Sizing WITH
        None <- NoTicket, NoData <- NoSample, Configs <- Rulebooks, Markets <- Venues,
        Signals <- Ideas, Fractions <- Portions, Balances <- Purses,
        MaxTrades <- TicketBound, MaxGens <- RenewalBound,
        cfg <- rulebook, market <- venue, balance <- fund, book <- atRisk,
        opened <- issued, decision <- ticket, refused <- refusal, group <- payloads,
        gens <- renewals

SizingRuns == rulebook # NoTicket
SizingParked ==
    /\ rulebook = NoTicket /\ venue = NoTicket /\ fund = NoTicket /\ atRisk = <<>>
    /\ issued = NoTicket /\ ticket = NoTicket /\ refusal = NoTicket
    /\ payloads = NoTicket /\ renewals = NoTicket

OpeningInit == S!Init \/ SizingParked
OpeningNext == SizingRuns /\ S!Next
OpeningSpec == OpeningInit /\ [][OpeningNext]_sizingVars

(***************************************************************************)
(* Properties.                                                             *)
(***************************************************************************)
\* Sizing: LossWithinBudget, NeverOverfilled and CapsAtEntry.
LossWithinBudget ==
    /\ [](SizingRuns => S!LossWithinBudget /\ S!NeverOverfilled)
    /\ S!CapsAtEntry
\* Sizing.StopFiresFirst.
StopFiresFirst == SizingRuns => S!StopFiresFirst
================================================================================
