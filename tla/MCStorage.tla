----------------------------- MODULE MCStorage ------------------------------
EXTENDS Storage

MCSecret == <<Bits(131), Bits(58)>>
MCCoefficient == <<Bits(87), Bits(201)>>
=============================================================================
