---------------------------- MODULE MCGuestMail ----------------------------
EXTENDS GuestMail, TLC
Interchangeable == Permutations(Photos) \cup Permutations(MailSlots)
=============================================================================
