------------------------------- MODULE MCSaga -------------------------------
EXTENDS SagaProperties
CONSTANT o1
MCLines == [o \in Order |-> 2]
MCTotal == [o \in Order |-> 7]
=============================================================================
