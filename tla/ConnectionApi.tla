---------------------------- MODULE ConnectionApi ----------------------------
(***************************************************************************)
(* The entry points of src/connection.rs: builders, connections, sessions, *)
(* registries, table creation and the catalogue calls.                     *)
(***************************************************************************)
EXTENDS Handles

(* --- connecting -------------------------------------------------------- *)

Connect == \E ok \in ArgsPass : Rebuilds("connect", {}, {"ConnectBuilder"}, ok)

(* Mutant: the output pointer is looked at before the builder is taken.    *)
ConnectBuilderExecuteChecksFirst ==
  \E b \in Arg("ConnectBuilder"), ok \in ArgsPass :
    \/ /\ b = NULL \/ ~ok
       /\ Fails("connect_builder_execute", {b}, "InvalidArgument", {})
    \/ /\ b # NULL /\ ok
       /\ \/ Succeeds("connect_builder_execute", {b}, {b}, {"Connection"})
          \/ Fails("connect_builder_execute", {b}, "Error", {b})

(* The builder is taken before the output pointer is looked at, and before *)
(* the connection is attempted: it is gone whatever the call returns.      *)
ConnectBuilderExecute ==
  \E b \in Arg("ConnectBuilder"), ok \in ArgsPass :
    \/ /\ b = NULL \/ ~ok
       /\ Fails("connect_builder_execute", {b}, "InvalidArgument", {b} \ {NULL})
    \/ /\ b # NULL /\ ok
       /\ \/ Succeeds("connect_builder_execute", {b}, {b}, {"Connection"})
          \/ Fails("connect_builder_execute", {b}, "Error", {b})

ConnectBuilderStorageOption ==
  \E b \in Arg("ConnectBuilder"), ok \in ArgsPass :
    Rebuilds("connect_builder_storage_option", {b}, {"ConnectBuilder"}, b # NULL /\ ok)

(* The session is borrowed: the builder holds a reference of its own.      *)
ConnectBuilderSession ==
  \E b \in Arg("ConnectBuilder"), s \in Handle("Session") \cup {NULL} :
    Rebuilds("connect_builder_session", {b}, {"ConnectBuilder"}, b # NULL)

ConnectBuilderFree == Frees("connect_builder_free", "ConnectBuilder")

ConnectionFree == Frees("connection_free", "Connection")

(* --- sessions and registries ------------------------------------------- *)

SessionNew == Succeeds("session_new", {}, {}, {"Session"})

SessionNewWithRegistry ==
  \E r \in Handle("Registry") \cup {NULL} :
    Succeeds("session_new_with_registry", {r}, {r} \ {NULL}, {"Session"})

SessionFree == Frees("session_free", "Session")

SessionIndexCacheStats ==
  \E s \in Arg("Session"), ok \in ArgsPass :
    \/ s # NULL /\ ok /\ Succeeds("session_index_cache_stats", {}, {}, {})
    \/ /\ s = NULL \/ ~ok
       /\ Fails("session_index_cache_stats", {}, "InvalidArgument", {})

SessionMetadataCacheStats ==
  \E s \in Arg("Session"), ok \in ArgsPass :
    \/ s # NULL /\ ok /\ Succeeds("session_metadata_cache_stats", {}, {}, {})
    \/ /\ s = NULL \/ ~ok
       /\ Fails("session_metadata_cache_stats", {}, "InvalidArgument", {})

RegistryNew == Succeeds("registry_new", {}, {}, {"Registry"})

RegistryFree == Frees("registry_free", "Registry")

(* Providers are made by a Rust library of the application, not by this    *)
(* API.                                                                    *)
ExternalProvider == Succeeds("external_provider", {}, {}, {"Provider"})

(* A bad scheme is rejected before the provider is taken, an uninitialised *)
(* provider after.                                                         *)
RegistryInsertProvider ==
  \E r \in Arg("Registry"), p \in Arg("Provider"),
     ok \in ArgsPass, badScheme \in Faulty("scheme"), empty \in Faulty("provider") :
    \/ /\ NULL \in {r, p} \/ ~ok
       /\ Fails("registry_insert_provider", {p}, "InvalidArgument", {})
    \/ /\ NULL \notin {r, p} /\ ok /\ badScheme
       /\ Fails("registry_insert_provider", {p}, "InvalidInput", {})
    \/ /\ NULL \notin {r, p} /\ ok /\ ~badScheme /\ empty
       /\ Fails("registry_insert_provider", {p}, "InvalidArgument", {p})
    \/ /\ NULL \notin {r, p} /\ ok /\ ~badScheme /\ ~empty
       /\ Succeeds("registry_insert_provider", {p}, {p}, {})

ObjectStoreProviderFree == Frees("object_store_provider_free", "Provider")

(* --- tables ------------------------------------------------------------ *)

(* The schema is imported before the reader is taken; the name is checked  *)
(* and the table created after.                                            *)
TableCreate ==
  \E c \in Arg("Connection"), r \in Handle("Reader") \cup {NULL},
     ok \in ArgsPass, badSchema \in Faulty("schema") :
    \/ /\ c = NULL \/ ~ok
       /\ Fails("table_create", {r}, "InvalidArgument", {})
    \/ /\ c # NULL /\ ok /\ badSchema
       /\ Fails("table_create", {r}, "InvalidInput", {})
    \/ /\ c # NULL /\ ok /\ ~badSchema
       /\ \/ Succeeds("table_create", {r}, {r} \ {NULL}, {"Table"})
          \/ \E rc \in {"InvalidInput", "Error"} :
               Fails("table_create", {r}, rc, {r} \ {NULL})

ConnectionOpenTable ==
  \E c \in Arg("Connection") : Produces("connection_open_table", {c}, {"Table"}, FALSE)

TableFree == Frees("table_free", "Table")

ConnectionDropTable ==
  \E c \in Arg("Connection") : Borrows("connection_drop_table", {c})

ConnectionRenameTable ==
  \E c \in Arg("Connection") : Borrows("connection_rename_table", {c})

ConnectionDropAllTables ==
  \E c \in Arg("Connection") : Borrows("connection_drop_all_tables", {c})

(* --- listing ----------------------------------------------------------- *)

ConnectionTableNames ==
  \E c \in Arg("Connection") :
    Produces("connection_table_names", {c}, {"TableNames"}, TRUE)

FreeTableNames == Frees("free_table_names", "TableNames")

ConnectionTableNamesBuilder ==
  \E c \in Arg("Connection") :
    Rebuilds("connection_table_names_builder", {}, {"NamesBuilder"}, c # NULL)

TableNamesBuilderLimit ==
  \E b \in Arg("NamesBuilder") :
    Rebuilds("table_names_builder_limit", {b}, {"NamesBuilder"}, b # NULL)

TableNamesBuilderStartAfter ==
  \E b \in Arg("NamesBuilder"), ok \in ArgsPass :
    Rebuilds("table_names_builder_start_after", {b}, {"NamesBuilder"}, b # NULL /\ ok)

TableNamesBuilderExecute ==
  \E b \in Arg("NamesBuilder"), ok \in ArgsPass :
    \/ /\ b = NULL \/ ~ok
       /\ Fails("table_names_builder_execute", {b}, "InvalidArgument", {b} \ {NULL})
    \/ /\ b # NULL /\ ok
       /\ \/ \E made \in {{}, {"TableNames"}} :
               Succeeds("table_names_builder_execute", {b}, {b}, made)
          \/ Fails("table_names_builder_execute", {b}, "Error", {b})

TableNamesBuilderFree == Frees("table_names_builder_free", "NamesBuilder")

ConnectionCreateNamespace ==
  \E c \in Arg("Connection") : Borrows("connection_create_namespace", {c})

ConnectionDropNamespace ==
  \E c \in Arg("Connection") : Borrows("connection_drop_namespace", {c})

ConnectionListNamespaces ==
  \E c \in Arg("Connection") :
    Produces("connection_list_namespaces", {c}, {"Namespaces"}, TRUE)

FreeNamespaceList == Frees("free_namespace_list", "Namespaces")

-----------------------------------------------------------------------------

ConnectionNext ==
  \/ Connect \/ ConnectBuilderExecute \/ ConnectBuilderStorageOption
  \/ ConnectBuilderSession \/ ConnectBuilderFree \/ ConnectionFree
  \/ SessionNew \/ SessionNewWithRegistry \/ SessionFree
  \/ SessionIndexCacheStats \/ SessionMetadataCacheStats
  \/ RegistryNew \/ RegistryFree \/ ExternalProvider \/ RegistryInsertProvider
  \/ ObjectStoreProviderFree
  \/ TableCreate \/ ConnectionOpenTable \/ TableFree
  \/ ConnectionDropTable \/ ConnectionRenameTable \/ ConnectionDropAllTables
  \/ ConnectionTableNames \/ FreeTableNames
  \/ ConnectionTableNamesBuilder \/ TableNamesBuilderLimit
  \/ TableNamesBuilderStartAfter \/ TableNamesBuilderExecute \/ TableNamesBuilderFree
  \/ ConnectionCreateNamespace \/ ConnectionDropNamespace
  \/ ConnectionListNamespaces \/ FreeNamespaceList
=============================================================================
