---------------------------- MODULE MCConsumers ----------------------------
(* Consumers with three retained laps shown two per page, so that paging, *)
(* eviction and a page past the count all occur.                          *)
EXTENDS Consumers

MC_MAX_LAPS  == 3
MC_MAX_TOTAL == 1
MC_PAGE_ROWS == 2

=============================================================================
