--------------------------- MODULE MCFastApiLifespan ---------------------------
(* The instance of fastapi.cfg: more requests than worker threads.          *)
EXTENDS FastApiLifespan
===============================================================================
