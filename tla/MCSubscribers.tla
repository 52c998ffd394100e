----------------------------- MODULE MCSubscribers -----------------------------
EXTENDS Subscribers
=============================================================================
