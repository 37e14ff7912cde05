---------------------------- MODULE MCPersistence ----------------------------
(* Entity persistence; the entities are model values.                      *)
EXTENDS EntityPersistence
=============================================================================
