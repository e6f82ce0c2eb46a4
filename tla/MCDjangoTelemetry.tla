--------------------------- MODULE MCDjangoTelemetry ---------------------------
(* The instance of django.cfg: three threads, each a request, a test or a   *)
(* caller of close_owned in turn, and one client more than an exit needs.   *)
EXTENDS DjangoTelemetry
===============================================================================
