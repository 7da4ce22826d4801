-------------------------- MODULE MCUrlServiceHistory --------------------------
(* The runs of UrlServiceHistory, with MCUrlService's jobs. *)
EXTENDS UrlServiceHistory, MCUrlService
===============================================================================
