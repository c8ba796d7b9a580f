----------------------------- MODULE Dashboards -----------------------------
(***************************************************************************)
(* The dashboard of the Kubernetes charm and the relation with Grafana.    *)
(* Every unit keeps the dashboards of its own revision of the charm in its *)
(* stored state; the leader publishes what it keeps.  The leader of        *)
(* Grafana renders what is published into its peer databag, from which all *)
(* the units of Grafana show it.                                           *)
(*                                                                         *)
(* Simplifications:                                                        *)
(*  - a revision has one dashboard file, as the charm does; the panels of  *)
(*    the revisions in OwnSource name a data source variable of the        *)
(*    dashboard itself, and the list of variables of those in              *)
(*    BadDashboards is malformed, which only Grafana finds out;            *)
(*  - the leader of Grafana does not change.                               *)
(***************************************************************************)
EXTENDS Naturals, FiniteSets

CONSTANTS DashUnits,      \* Units of the charm
          Grafanas,       \* Units of Grafana
          DashRevisions,  \* Revisions of the charm, positive numbers
          OwnSource,      \* Revisions whose panels use a variable of the dashboard
          BadDashboards,  \* Revisions that cannot be rendered
          MaxDashMoves    \* Upgrades of a unit, moves of the leadership

ASSUME DashAssumption ==
  /\ IsFiniteSet(DashUnits) /\ DashUnits # {} /\ IsFiniteSet(Grafanas) /\ Grafanas # {}
  /\ 1 \in DashRevisions /\ DashRevisions \subseteq Nat \ {0}
  /\ OwnSource \cup BadDashboards \subseteq DashRevisions
  /\ MaxDashMoves \in Nat

VARIABLES
  dashRel,    \* The relation: "none", "up" or "dying"
  keeper,     \* The units of the charm: revision, stored templates, events to come
  head,       \* The unit that leads
  templates,  \* What the application databag carries, a set of at most one template
  grafana,    \* What the leader of Grafana has rendered, its reported error, its event to come
  shown,      \* The dashboards that each unit of Grafana shows
  peerDirty,  \* Units of Grafana with a peer relation-changed to come
  dashMoves

dashVars == <<dashRel, keeper, head, templates, grafana, shown, peerDirty, dashMoves>>

GrafanaLeader == CHOOSE g \in Grafanas : TRUE

DashInit ==
  /\ dashRel = "none" /\ head = (CHOOSE u \in DashUnits : TRUE) /\ templates = {} /\ dashMoves = 0
  /\ keeper = [u \in DashUnits |-> [rev |-> 1, stored |-> {}, todo |-> {}]]
  /\ grafana = [stored |-> {}, error |-> FALSE, dirty |-> FALSE]
  /\ shown = [g \in Grafanas |-> {}] /\ peerDirty = {}

DashMove == dashMoves < MaxDashMoves /\ dashMoves' = dashMoves + 1

-----------------------------------------------------------------------------
(* The dashboard of a revision *)

\* The file: its variables, the data source of its panels and their expressions
DashboardFile(rev) ==
  [rev |-> rev, uid |-> "own", tags |-> {}, variables |-> {"datasource", "job", "instance"},
   source |-> IF rev \in OwnSource THEN "datasource" ELSE "prometheusds", matchers |-> {}]

\* _replace_uid and _add_tags
ReplaceUid(d) == [d EXCEPT !.uid = "path"]
AddTags(d) == [d EXCEPT !.tags = @ \cup {"charm"}]

\* _content_to_dashboard_object, _generate_alt_uid
DashboardObject(u, d) == [content |-> d, alt_uid |-> "alternative", juju_topology |-> u]

\* load_dashboards_from_dir
LoadDashboards(u, rev) == {DashboardObject(u, AddTags(ReplaceUid(DashboardFile(rev))))}

\* _manage_dashboard_uid
ManageUid(t) == IF t.content.uid = "" THEN [t.content EXCEPT !.uid = t.alt_uid] ELSE t.content

TopologyDropdowns == {"juju_model", "juju_model_uuid", "juju_application", "juju_unit"}
DatasourceDropdowns == {"prometheusds", "lokids"}

\* _template_panels: a data source variable of the dashboard gives way to Prometheus's
TemplatePanels(d) == [d EXCEPT !.source = IF @ \in DatasourceDropdowns THEN @ ELSE "prometheusds"]

\* _replace_template_fields: the variable that gave way is deleted
ReplaceTemplateFields(d) ==
  LET new == TemplatePanels(d)
  IN  [new EXCEPT !.variables = @ \ ({d.source} \ {new.source})]

\* _convert_dashboard_fields
ConvertFields(d) ==
  ReplaceTemplateFields([d EXCEPT !.variables = @ \cup TopologyDropdowns \cup DatasourceDropdowns])

\* inject_label_matchers: an expression is restricted to the selected topology
InjectMatchers(matchers) == matchers \cup TopologyDropdowns

\* _modify_panel: only expressions on the data sources it knows
ModifyPanel(d) ==
  IF d.source \in DatasourceDropdowns THEN [d EXCEPT !.matchers = InjectMatchers(@)] ELSE d

\* _inject_labels, of every panel
InjectLabels(d) == ModifyPanel(d)

\* A template as it is rendered
Rendered(t) == InjectLabels(ConvertFields(ManageUid(t)))

\* _to_external_object
External(d) == [dashboard_uid |-> d.uid, rev |-> d.rev, source |-> d.source, matchers |-> d.matchers]

\* dashboards: what a unit of Grafana shows of the peer databag
Dashboards(stored) == {e \in {External(d) : d \in stored} : e.dashboard_uid # ""}

-----------------------------------------------------------------------------
(* The provider *)

\* _upset_dashboards_on_relation, on the leader
UpsetDashboards(u, new) ==
  IF dashRel = "up" /\ u = head /\ new # templates
  THEN templates' = new /\ grafana' = [grafana EXCEPT !.dirty = TRUE]
  ELSE UNCHANGED <<templates, grafana>>

(* Mistake: a newer revision is loaded, and is published when the relation is next created *)
UpdateWithoutPublishing(u, event) ==
  /\ keeper' = [keeper EXCEPT ![u].stored = LoadDashboards(u, keeper[u].rev), ![u].todo = @ \ {event}]
  /\ IF event = "created" THEN UpsetDashboards(u, keeper'[u].stored)
     ELSE UNCHANGED <<templates, grafana>>

\* _update_all_dashboards_from_dir
UpdateAllDashboards(u, event) ==
  /\ keeper' = [keeper EXCEPT ![u].stored = LoadDashboards(u, keeper[u].rev), ![u].todo = @ \ {event}]
  /\ UpsetDashboards(u, keeper'[u].stored)

\* leader-elected, upgrade-charm and config-changed
DashboardsRefreshed(u, event) ==
  /\ event \in keeper[u].todo \cap {"elected", "upgraded"}
  /\ UpdateAllDashboards(u, event)
  /\ UNCHANGED <<dashRel, head, shown, peerDirty, dashMoves>>

\* _on_grafana_dashboard_relation_created
DashRelationCreated(u) ==
  /\ "created" \in keeper[u].todo
  /\ IF u = head THEN UpdateAllDashboards(u, "created")
     ELSE /\ keeper' = [keeper EXCEPT ![u].todo = @ \ {"created"}]
          /\ UNCHANGED <<templates, grafana>>
  /\ UNCHANGED <<dashRel, head, shown, peerDirty, dashMoves>>

-----------------------------------------------------------------------------
(* The consumer *)

\* set_peer_data, and dashboards_changed on the leader; Juju tells the other units
StoreAndEmit(stored) ==
  /\ shown' = [shown EXCEPT ![GrafanaLeader] = Dashboards(stored)]
  /\ peerDirty' = IF stored = grafana.stored THEN peerDirty ELSE Grafanas \ {GrafanaLeader}

\* _remove_all_dashboards_for_relation
RemoveAllDashboards == IF grafana.stored # {} THEN StoreAndEmit({}) ELSE UNCHANGED <<shown, peerDirty>>

\* _render_dashboards_and_signal_changed: one dashboard that cannot be rendered removes all
RenderDashboards ==
  LET invalid == {t \in templates : t.content.rev \in BadDashboards}
      stored  == IF invalid # {} THEN {} ELSE {Rendered(t) : t \in templates}
  IN  /\ grafana' = [stored |-> stored, error |-> invalid # {}, dirty |-> FALSE]
      /\ IF invalid # {} THEN RemoveAllDashboards
         ELSE IF stored # grafana.stored THEN StoreAndEmit(stored)
         ELSE UNCHANGED <<shown, peerDirty>>

\* _on_grafana_dashboard_relation_changed, on the leader
DashRelationChanged ==
  /\ grafana.dirty /\ RenderDashboards
  /\ UNCHANGED <<dashRel, keeper, head, templates, dashMoves>>

\* _on_grafana_dashboard_relation_broken, on the leader
DashRelationBroken ==
  /\ dashRel = "dying" /\ dashRel' = "gone"
  /\ RemoveAllDashboards
  /\ grafana' = [stored |-> {}, error |-> FALSE, dirty |-> FALSE] /\ templates' = {}
  /\ UNCHANGED <<keeper, head, dashMoves>>

\* has_invalid_dashboards
HasInvalidDashboards == grafana.error

\* _on_grafana_peer_changed
GrafanaPeerChanged(g) ==
  /\ g \in peerDirty /\ peerDirty' = peerDirty \ {g}
  /\ shown' = [shown EXCEPT ![g] = Dashboards(grafana.stored)]
  /\ UNCHANGED <<dashRel, keeper, head, templates, grafana, dashMoves>>

-----------------------------------------------------------------------------
(* The operator, and Juju *)

RelateGrafana ==
  /\ dashRel = "none" /\ dashRel' = "up"
  /\ keeper' = [u \in DashUnits |-> [keeper[u] EXCEPT !.todo = @ \cup {"created"}]]
  /\ UNCHANGED <<head, templates, grafana, shown, peerDirty, dashMoves>>

UnrelateGrafana ==
  /\ dashRel = "up" /\ dashRel' = "dying"
  /\ keeper' = [u \in DashUnits |-> [keeper[u] EXCEPT !.todo = @ \ {"created"}]]
  /\ grafana' = [grafana EXCEPT !.dirty = FALSE]
  /\ UNCHANGED <<head, templates, shown, peerDirty, dashMoves>>

DashUpgrade(u) ==
  /\ DashMove
  /\ \E r \in {s \in DashRevisions : s > keeper[u].rev} :
       keeper' = [keeper EXCEPT ![u].rev = r, ![u].todo = @ \cup {"upgraded"}]
  /\ UNCHANGED <<dashRel, head, templates, grafana, shown, peerDirty>>

HeadMoves(u) ==
  /\ u # head /\ DashMove /\ head' = u
  /\ keeper' = [keeper EXCEPT ![u].todo = @ \cup {"elected"}]
  /\ UNCHANGED <<dashRel, templates, grafana, shown, peerDirty>>

DashHook ==
  \/ DashRelationChanged \/ DashRelationBroken
  \/ \E g \in Grafanas : GrafanaPeerChanged(g)
  \/ \E u \in DashUnits : \/ DashRelationCreated(u)
                          \/ \E e \in {"elected", "upgraded"} : DashboardsRefreshed(u, e)

DashNext ==
  \/ DashHook \/ RelateGrafana \/ UnrelateGrafana
  \/ \E u \in DashUnits : DashUpgrade(u) \/ HeadMoves(u)

-----------------------------------------------------------------------------
(* Properties *)

(* When events have settled, every unit of Grafana shows the dashboard of   *)
(* the revision that the leader of the charm runs, whichever unit leads and *)
(* in whatever order units are upgraded, with its expressions restricted to *)
(* the selected topology; it shows none, and the charm is told so, where    *)
(* that dashboard cannot be rendered, and none once the relation is gone    *)
(* (_update_all_dashboards_from_dir, _render_dashboards_and_signal_changed, *)
(* _on_grafana_peer_changed).                                               *)
DashboardsFollowCharm ==
  \A g \in Grafanas : <>[](
    LET rev == keeper[head].rev
        bad == rev \in BadDashboards
    IN  IF dashRel # "up" THEN shown[g] = {}
        ELSE /\ HasInvalidDashboards = bad
             /\ {<<d.rev, d.source, TopologyDropdowns \subseteq d.matchers>> : d \in shown[g]} =
                  IF bad THEN {} ELSE {<<rev, "prometheusds", TRUE>>})
=============================================================================
