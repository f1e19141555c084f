-------------------------- MODULE MCMessageDelivery --------------------------
EXTENDS MessageDelivery
=============================================================================
