-------------------------- MODULE MCConfigDelivery --------------------------
\* The instance of ConfigDelivery that TLC checks.
EXTENDS ConfigDelivery

CONSTANTS A, B, c1, c2
=============================================================================
