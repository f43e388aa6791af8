----------------------------- MODULE MCListing -----------------------------
(* TLC instances of Listing: lists of up to four entries, pages of two.    *)
EXTENDS Listing

FourKeys == 1..4
Lenient == {"getBalanceStaked", "getContracts"}
=============================================================================
