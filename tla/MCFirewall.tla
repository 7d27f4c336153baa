----------------------------- MODULE MCFirewall -----------------------------
EXTENDS Firewall
=============================================================================
