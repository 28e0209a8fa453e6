---------------------------- MODULE MCImageJobs ----------------------------
\* A guest's job and an owner's job with one live request; the guest's key is
\* capped and shared with the live request, the owner's has no limit.  A second
\* owner's job, without live request, midnight and inner crash, so that one can
\* be queued behind a paused job that was queued while the third had the worker.
EXTENDS ImageJobs

CONSTANTS g1, o1, o2, c1

=============================================================================
