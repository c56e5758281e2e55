---------------------------- MODULE MCProxyBidding ----------------------------
EXTENDS ProxyBidding
=============================================================================
