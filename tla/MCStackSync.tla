---------------------------- MODULE MCStackSync ----------------------------
(***************************************************************************)
(* One stack of the repository; the fetch ticker is the other writer of    *)
(* the checkout.  The second commit changes the compose file.              *)
(***************************************************************************)
EXTENDS StackSync, TLC

CONSTANTS web, old, new

WebContent == web :> <<old, new>>
=============================================================================
