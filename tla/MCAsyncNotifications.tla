------------------------ MODULE MCAsyncNotifications ------------------------
(* Instances for TLC.  One producer of two is careless with its hints and  *)
(* has a waker that panics, one awaiter a waker that calls the service.    *)
EXTENDS AsyncNotificationsProgress, TLC

CONSTANTS t1, t2, p1, p2, a1

TwoThreads == {t1, t2}
TwoProducers == {p1, p2}
OneAwaiter == {a1}
=============================================================================
