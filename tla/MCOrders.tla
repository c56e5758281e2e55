---- MODULE MCOrders ----
EXTENDS Orders
====
