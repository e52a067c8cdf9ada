------------------------------ MODULE Clients ------------------------------
(* The browsers and programs whose requests the server answers in parallel.  *)
CONSTANTS
    Client,  \* each has one request under way at most
    Idle     \* what a client without one does
=============================================================================
