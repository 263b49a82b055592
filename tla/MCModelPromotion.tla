---------------------------- MODULE MCModelPromotion ----------------------------
EXTENDS ModelPromotion, TLC
=============================================================================
