--------------------------- MODULE MCReleaseDelivery ---------------------------
EXTENDS ReleaseDelivery
MCSize == [a \in Asset |-> 2]
=============================================================================
