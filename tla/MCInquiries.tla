---------------------------- MODULE MCInquiries -----------------------------
\* One stored inquiry whose event two workers handle after a lease has run out.
EXTENDS Inquiries
=============================================================================
