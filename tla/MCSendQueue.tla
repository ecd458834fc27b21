---- MODULE MCSendQueue ----
EXTENDS SendQueue
====
