------------------------- MODULE MCBrowserTransfer -------------------------
(* Files of two chunks and of one; one browser that sends, or two.           *)
EXTENDS BrowserTransfer, TLC
CONSTANTS a, b, f, g, title
LongAndShort == f :> 2 @@ g :> 1
TwoShort == f :> 1 @@ g :> 1
SameName == f :> title @@ g :> title
=============================================================================
