------------------------------- MODULE MCKiteFeed -------------------------------
EXTENDS KiteFeed, TLC
=============================================================================
