------------------------------- MODULE MCInbox -------------------------------
EXTENDS Inbox

\* A plan that mails before the notices are committed, and one that mails after.
Both == {"booked", "updated"}
=============================================================================
