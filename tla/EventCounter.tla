---------------------------- MODULE EventCounter ----------------------------
(***************************************************************************)
(* What the event-ID allocator promises (spec sections 3 and 4.4): IDs are *)
(* handed out by an atomic fetch-and-increment of one shared counter of    *)
(* IdSpace values, starting wherever the counter stood when the build      *)
(* began, so the IDs issued are consecutive modulo IdSpace.                *)
(*                                                                         *)
(* The pass (AFLCoverage) splits each allocation into a read of the        *)
(* segment and a later write-back; it implements this specification only  *)
(* when allocations are serialized.                                        *)
(***************************************************************************)
EXTENDS Naturals, Sequences

CONSTANTS
    IdSpace,   \* number of counter values (2^16 for the u16 counter)
    Starts     \* values the counter may hold when the build starts

VARIABLES
    ctr,       \* the counter
    issued     \* the IDs issued so far, in allocation order

Init ==
    /\ ctr \in Starts
    /\ issued = <<>>

(* One allocation: the current value is issued and the counter advances.   *)
Allocate ==
    /\ issued' = Append(issued, ctr)
    /\ ctr' = (ctr + 1) % IdSpace

Spec == Init /\ [][Allocate]_<<ctr, issued>>

=============================================================================
