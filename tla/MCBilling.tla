----------------------------- MODULE MCBilling ------------------------------
EXTENDS Billing

A == "subscription_expired"
B == "comment"
None == [l \in Leaf |-> "unset"]
MCAsks == {[inApp |-> "off",   preferences |-> [None EXCEPT ![A] = "off"]],
           [inApp |-> "on",    preferences |-> [None EXCEPT ![B] = "off"]],
           [inApp |-> "unset", preferences |-> [None EXCEPT ![A] = "on"]]}
=============================================================================
