---------------------------- MODULE MCLogLevels ----------------------------
(* Instances of LogLevels for TLC: INFO, WARNING and FATAL by default, and a  *)
(* custom level below INFO and one above WARNING that may be added or not.    *)
EXTENDS LogLevels
============================================================================
