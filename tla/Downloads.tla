------------------------------ MODULE Downloads ------------------------------
(***************************************************************************)
(* What a customer downloads: the release of a version beside the limit on *)
(* downloads.  The two share no state; a request meets both of them.       *)
(***************************************************************************)
EXTENDS Releases, DownloadLimit

DownloadsSpec == ReleasesSpec /\ LimitSpec

\* What customers download: a published version whose files are all there, and no more
\* often than the limit allows (publishVersion and DownloadRateLimiter).
DownloadsHold == PublishedVersionIsWhole /\ NoWindowIsOverrun
=============================================================================
