------------------------------ MODULE MCMeeting ------------------------------
EXTENDS Meeting
=============================================================================
