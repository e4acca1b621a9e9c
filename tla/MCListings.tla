----------------------------- MODULE MCListings -----------------------------
(* A small instance of the listings for TLC. *)
EXTENDS Listings
=============================================================================
