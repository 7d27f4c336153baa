------------------------------ MODULE MCDelivery ------------------------------
EXTENDS Delivery
=============================================================================
