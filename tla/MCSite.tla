------------------------------- MODULE MCSite -------------------------------
(***************************************************************************)
(* Two processes and the browsers of two visitors, one of whose query      *)
(* strings has a mark that FoundXSS looks for.                             *)
(***************************************************************************)
EXTENDS Site

MCQueries == {{}, {"<"}}
=============================================================================
