--------------------------- MODULE MCDeliveryDelay ---------------------------
(* RoutedEvents, of which the delayed delivery is one, with small bounds: the *)
(* second version of the stock is enough, the first and the third are not.    *)
EXTENDS RoutedEvents

MCEnough == {1}
=============================================================================
