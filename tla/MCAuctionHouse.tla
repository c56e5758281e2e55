---- MODULE MCAuctionHouse ----
EXTENDS AuctionHouse
====
