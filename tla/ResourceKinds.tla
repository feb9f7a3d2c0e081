--------------------------- MODULE ResourceKinds ---------------------------
(***************************************************************************)
(* How the resources of the provider use the NSX API.  Every resource has  *)
(* a Create, a Read, an Update and a Delete function; what distinguishes   *)
(* them as protocols is a handful of choices, which make a profile.  There *)
(* is a definition for every resource whose life is Lifecycle's.  Its      *)
(* arguments are one value: what every Create and Update sends and every   *)
(* Read returns; and a second one, if there are arguments that no Read     *)
(* returns, passwords and keys.  The paths of a parent and options of one  *)
(* call are no arguments here.                                             *)
(*                                                                         *)
(*   names     who names the object: the user (nsx_id, or else a new UUID) *)
(*             the server, or nobody: there is one place for it            *)
(*   checked   Create first makes sure that the name is free               *)
(*   create    the request that creates                                    *)
(*   update    "patch"; a PUT with the revision of the state ("revised"),  *)
(*             with that of a GET just before ("reread") or with none      *)
(*             ("unrevised"); or no Update at all ("recreate")             *)
(*   partial   an Update that fails asks for a partial update              *)
(*   readBack  Update ends with Read                                       *)
(*   delete    the object is deleted, or it is a setting of another one    *)
(*             that is reset, or kept                                      *)
(*   absent    Delete makes "ok" or "error" of an object that is gone      *)
(*   forgets   Read takes an object that is gone from the state: "yes",    *)
(*             "never", or "any": it does so on any error                  *)
(*   second    Create has a second call, with a "rollback"; Read does      *)
(*             "verify" the object; Update ends with calls that "clear" it *)
(*   waits     what surrounds the deletion: a wait before or after it, or  *)
(*             a write that makes the object empty                         *)
(*   hides     the argument that no Read returns goes with every Update    *)
(*             ("sent") or with one that is to change it ("changed"), or   *)
(*             there is "nothing" of the kind                              *)
(*   halves    a write of the values is two requests                       *)
(*                                                                         *)
(* "either": the code looks at the error before it looks at the status, so *)
(* the outcome is the SDK's choice.                                        *)
(***************************************************************************)

Profile == [names : {"user", "server", "place"}, checked : BOOLEAN,
            create : {"patch", "put", "post"},
            update : {"patch", "revised", "reread", "unrevised", "recreate"},
            partial : BOOLEAN, readBack : BOOLEAN,
            delete : {"delete", "reset", "keep"},
            absent : {"ok", "error", "either"},
            forgets : {"yes", "never", "either", "any"},
            second : {"none", "rollback", "verify", "clear"},
            waits : {"none", "before", "after", "empty"},
            hides : {"nothing", "sent", "changed"}, halves : BOOLEAN]

-----------------------------------------------------------------------------
\* The families.

\* Objects of the manager API, through the first SDK.
Manager == [names |-> "server", checked |-> FALSE, create |-> "post",
            update |-> "revised", partial |-> FALSE, readBack |-> TRUE,
            delete |-> "delete", absent |-> "either", forgets |-> "yes",
            second |-> "none", waits |-> "none", hides |-> "nothing",
            halves |-> FALSE]

\* handleReadError and handleDeleteError know an object that is gone.
System == [Manager EXCEPT !.absent = "ok"]

Patched == [System EXCEPT !.names = "user", !.checked = TRUE,
                          !.create = "patch", !.update = "patch"]
Revised == [Patched EXCEPT !.update = "revised"]
Partially == [Revised EXCEPT !.partial = TRUE]
Setting == [Patched EXCEPT !.names = "place", !.checked = FALSE, !.delete = "reset"]

-----------------------------------------------------------------------------
\* Objects of the manager API.

nsxt_algorithm_type_ns_service == Manager
nsxt_ether_type_ns_service == Manager
nsxt_igmp_type_ns_service == Manager
nsxt_ip_protocol_ns_service == Manager
nsxt_l4_port_set_ns_service == Manager
nsxt_ns_service_group == Manager
nsxt_ns_group == Manager
nsxt_ip_set == Manager
nsxt_ip_block == Manager
nsxt_ip_pool == Manager
nsxt_dhcp_relay_profile == Manager
nsxt_dhcp_relay_service == Manager
nsxt_dhcp_server_profile == Manager
nsxt_logical_dhcp_server == Manager
nsxt_logical_dhcp_port == Manager
nsxt_logical_port == Manager
nsxt_logical_router_centralized_service_port == Manager
nsxt_logical_router_downlink_port == Manager
nsxt_logical_router_link_port_on_tier0 == Manager
nsxt_logical_router_link_port_on_tier1 == Manager
nsxt_logical_tier0_router == Manager
nsxt_static_route == Manager
nsxt_lb_client_ssl_profile == Manager
nsxt_lb_cookie_persistence_profile == Manager
nsxt_lb_fast_tcp_application_profile == Manager
nsxt_lb_http_application_profile == Manager
nsxt_lb_http_forwarding_rule == Manager
nsxt_lb_http_monitor == Manager
nsxt_lb_http_request_rewrite_rule == Manager
nsxt_lb_http_response_rewrite_rule == Manager
nsxt_lb_http_virtual_server == Manager
nsxt_lb_https_monitor == Manager
nsxt_lb_passive_monitor == Manager
nsxt_lb_pool == Manager
nsxt_lb_server_ssl_profile == Manager
nsxt_lb_service == Manager
nsxt_lb_source_ip_persistence_profile == Manager
nsxt_lb_tcp_monitor == Manager
nsxt_lb_tcp_virtual_server == Manager
nsxt_lb_udp_monitor == Manager
nsxt_lb_udp_virtual_server == Manager
nsxt_ip_discovery_switching_profile == Manager
nsxt_mac_management_switching_profile == Manager
nsxt_qos_switching_profile == Manager
nsxt_spoofguard_switching_profile == Manager
nsxt_switch_security_switching_profile == Manager
nsxt_icmp_type_ns_service == [Manager EXCEPT !.forgets = "either"]
nsxt_lb_fast_udp_application_profile == [Manager EXCEPT !.forgets = "either"]
nsxt_lb_icmp_monitor == [Manager EXCEPT !.forgets = "either"]

-----------------------------------------------------------------------------
\* Manager objects with a life of their own.

\* An update to a section without rules deletes its rules, even if the PUT of the
\* section has failed.
nsxt_firewall_section == [Manager EXCEPT !.forgets = "either", !.second = "clear"]

\* The PUT leaves the revision out.
nsxt_dhcp_server_ip_pool == [Manager EXCEPT !.update = "unrevised", !.forgets = "either"]

\* Every Read waits for the realization, and deletes the switch if it fails.
nsxt_logical_switch == [Manager EXCEPT !.second = "verify"]

\* Create waits for the realization, and deletes the switch if it fails.
nsxt_vlan_logical_switch == [Manager EXCEPT !.second = "rollback"]

\* Create sets the advertisement after the router, and deletes the router if
\* that fails; Update does so after its PUT, and returns the error.
nsxt_logical_tier1_router == [Manager EXCEPT !.second = "rollback", !.halves = TRUE]
nsxt_ip_block_subnet == [Manager EXCEPT !.update = "recreate"]

\* Read looks for the address in the list of the pool; Delete is a POST that
\* releases it.
nsxt_ip_pool_allocation_ip_address ==
    [Manager EXCEPT !.update = "recreate", !.absent = "error"]

\* No error is looked at more closely.
nsxt_nat_rule == [Manager EXCEPT !.forgets = "never", !.absent = "error"]

-----------------------------------------------------------------------------
\* Fabric and system objects, whose ids the server gives.

\* The credentials are in every request and in no answer.
nsxt_compute_manager == [System EXCEPT !.hides = "sent"]
nsxt_edge_cluster == System
nsxt_failure_domain == System
nsxt_edge_high_availability_profile == System

\* The certificate goes after the identity; an identity that was gone is still
\* reported as an error at the end.  Read does not return it.
nsxt_principal_identity ==
    [System EXCEPT !.update = "recreate", !.absent = "error", !.hides = "sent"]

\* The PUT leaves the revision out.  (The binding of a local user is taken
\* over.)
nsxt_policy_role_binding == [System EXCEPT !.update = "unrevised"]

\* Read makes an error of an attribute that is gone, and Delete reads first.
nsxt_policy_context_profile_custom_attribute ==
    [System EXCEPT !.update = "recreate", !.forgets = "never", !.absent = "error"]

-----------------------------------------------------------------------------
\* Policy objects that are updated with a PATCH.

nsxt_policy_context_profile == Patched
nsxt_policy_dhcp_server == Patched
nsxt_policy_intrusion_service_profile == Patched
nsxt_policy_ip_discovery_profile == Patched
nsxt_policy_share == Patched
nsxt_policy_ipsec_vpn_dpd_profile == Patched
nsxt_policy_ipsec_vpn_ike_profile == Patched
nsxt_policy_ipsec_vpn_tunnel_profile == Patched
nsxt_policy_lb_service == Patched
nsxt_policy_lb_virtual_server == Patched
nsxt_policy_dhcp_v4_static_binding == Patched
nsxt_policy_dhcp_v6_static_binding == Patched
nsxt_policy_distributed_flood_protection_profile == Patched
nsxt_policy_distributed_flood_protection_profile_binding == Patched
nsxt_policy_gateway_flood_protection_profile == Patched
nsxt_policy_dns_forwarder_zone == Patched
nsxt_policy_domain == Patched
nsxt_policy_evpn_tenant == Patched
nsxt_policy_evpn_tunnel_endpoint == Patched
nsxt_policy_gateway_prefix_list == Patched
nsxt_policy_gateway_qos_profile == Patched
nsxt_policy_gateway_route_map == Patched
nsxt_policy_gateway_policy == Patched
nsxt_vpc_gateway_policy == Patched
nsxt_policy_intrusion_service_policy == Patched
nsxt_policy_ip_pool == Patched
nsxt_policy_ip_pool_static_subnet == Patched
nsxt_policy_ipsec_vpn_local_endpoint == Patched
nsxt_policy_l2_vpn_service == Patched
nsxt_policy_l2_vpn_session == Patched
nsxt_policy_lb_client_ssl_profile == Patched
nsxt_policy_lb_http_application_profile == Patched
nsxt_policy_lb_http_monitor_profile == Patched
nsxt_policy_lb_https_monitor_profile == Patched
nsxt_policy_lb_icmp_monitor_profile == Patched
nsxt_policy_lb_passive_monitor_profile == Patched
nsxt_policy_lb_tcp_monitor_profile == Patched
nsxt_policy_lb_udp_monitor_profile == Patched
nsxt_policy_nat_rule == Patched
nsxt_policy_segment_security_profile == Patched
nsxt_policy_spoof_guard_profile == Patched
nsxt_policy_static_route == Patched
nsxt_policy_static_route_bfd_peer == Patched
nsxt_policy_vni_pool == Patched
nsxt_policy_tier0_inter_vrf_routing == Patched
nsxt_policy_transport_zone == Patched
nsxt_policy_group == Patched
nsxt_vpc_group == Patched
nsxt_policy_security_policy == Patched
nsxt_policy_parent_security_policy == Patched
nsxt_vpc_security_policy == Patched
nsxt_policy_ip_address_allocation == Patched
nsxt_policy_qos_profile == [Patched EXCEPT !.partial = TRUE]
nsxt_policy_security_policy_rule == [Patched EXCEPT !.absent = "error"]
nsxt_policy_ip_pool_block_subnet == [Patched EXCEPT !.waits = "after"]
nsxt_policy_host_transport_node == [Patched EXCEPT !.waits = "after"]
nsxt_policy_shared_resource == [Patched EXCEPT !.checked = FALSE]
nsxt_policy_tier0_gateway_gre_tunnel == [Patched EXCEPT !.checked = FALSE]

\* The default security profile of a project is patched after the project.
nsxt_policy_project == [Patched EXCEPT !.halves = TRUE]

\* A pre-shared key, a key and a password do not come back; the password goes with
\* an update that changes it.
nsxt_policy_ipsec_vpn_session == [Patched EXCEPT !.hides = "sent"]
nsxt_policy_ospf_area == [Patched EXCEPT !.checked = FALSE, !.hides = "sent"]
nsxt_policy_bgp_neighbor == [Patched EXCEPT !.hides = "changed"]

-----------------------------------------------------------------------------
\* Policy objects that are updated with the revision of the state.

nsxt_policy_distributed_vlan_connection == Revised
nsxt_policy_gateway_connection == Revised
nsxt_policy_lb_pool == Revised
nsxt_policy_uplink_host_switch_profile == Revised
nsxt_policy_vtep_ha_host_switch_profile == Revised
nsxt_policy_dhcp_relay == Revised
nsxt_policy_ip_block == Revised
nsxt_policy_mac_discovery_profile == Revised
nsxt_policy_transit_gateway == Revised
nsxt_policy_transit_gateway_attachment == Revised
nsxt_policy_transit_gateway_nat_rule == Revised
nsxt_vpc_attachment == Revised
nsxt_policy_service == Revised
nsxt_policy_gateway_community_list == Revised
nsxt_policy_tier0_gateway_interface == Revised
nsxt_policy_tier1_gateway_interface == Revised
nsxt_policy_ipsec_vpn_service == Revised

\* A PATCH of the hierarchy that enforces the revisions in it; so for the next.
nsxt_policy_tier0_gateway == Revised
nsxt_policy_tier1_gateway == Revised
nsxt_policy_segment == [Revised EXCEPT !.waits = "before"]
nsxt_policy_vlan_segment == [Revised EXCEPT !.waits = "before"]
nsxt_policy_fixed_segment == Revised
nsxt_policy_global_manager == [Revised EXCEPT !.readBack = FALSE]
nsxt_policy_site == [Revised EXCEPT !.readBack = FALSE]

\* A sub-cluster with nodes is emptied with a PUT before it is deleted.
nsxt_policy_compute_sub_cluster == [Revised EXCEPT !.waits = "empty"]
nsxt_policy_host_transport_node_profile == [Revised EXCEPT !.create = "put"]
nsxt_policy_role == [Revised EXCEPT !.create = "put"]

\* The secret of the proxy and the passwords of the LDAP servers do not come back.
nsxt_policy_metadata_proxy == [Revised EXCEPT !.hides = "sent"]
nsxt_policy_ldap_identity_source == [Revised EXCEPT !.create = "put", !.hides = "sent"]

\* NSX is removed from the hosts before the collection is deleted.
nsxt_policy_host_transport_node_collection ==
    [Revised EXCEPT !.create = "put", !.waits = "before"]

-----------------------------------------------------------------------------
\* VPC objects: updates with a revision that ask for a partial update.

nsxt_policy_project_ip_address_allocation == Partially
nsxt_vpc == Partially
nsxt_vpc_connectivity_profile == Partially
nsxt_vpc_ip_address_allocation == Partially
nsxt_vpc_service_profile == Partially
nsxt_vpc_static_routes == Partially
nsxt_vpc_dhcp_v4_static_binding_config == Partially
nsxt_vpc_nat_rule == Partially
nsxt_vpc_subnet == [Partially EXCEPT !.waits = "before"]

-----------------------------------------------------------------------------
\* Settings of an object that is there anyway.

nsxt_policy_evpn_config == Setting
nsxt_cluster_virtual_ip == Setting
nsxt_policy_predefined_gateway_policy == [Setting EXCEPT !.absent = "error"]
nsxt_policy_predefined_security_policy == [Setting EXCEPT !.absent = "error"]
nsxt_policy_ospf_config == [Setting EXCEPT !.delete = "keep"]

\* It makes more sense to avoid any action on delete, says the code.
nsxt_policy_bgp_config == [Setting EXCEPT !.update = "revised", !.delete = "keep"]

\* A part of a port, which is read and written back whole.
nsxt_vpc_external_address ==
    [Setting EXCEPT !.update = "reread", !.partial = TRUE, !.absent = "error"]

\* A part of a transport node, which is read and written back whole.
nsxt_edge_transport_node_rtep ==
    [Setting EXCEPT !.checked = TRUE, !.update = "reread", !.forgets = "never",
        !.absent = "error"]

\* The tags of the VM are written, then those of its ports.
nsxt_vm_tags ==
    [Setting EXCEPT !.forgets = "never", !.absent = "error", !.halves = TRUE]

\* Any error of the lookup of the VM is taken for its absence.
nsxt_policy_vm_tags == [Setting EXCEPT !.forgets = "any", !.halves = TRUE]

-----------------------------------------------------------------------------
\* Objects with a fixed name under their parent.

nsxt_policy_gateway_dns_forwarder == [Patched EXCEPT !.names = "place"]

\* The error of a deletion is looked at for a Tier-1 gateway only.
nsxt_policy_gateway_flood_protection_profile_binding ==
    [Patched EXCEPT !.names = "place", !.absent = "either"]

-----------------------------------------------------------------------------
AllKinds ==
    {nsxt_algorithm_type_ns_service, nsxt_ether_type_ns_service,
     nsxt_igmp_type_ns_service, nsxt_ip_protocol_ns_service,
     nsxt_l4_port_set_ns_service, nsxt_ns_service_group, nsxt_ns_group, nsxt_ip_set,
     nsxt_ip_block, nsxt_ip_pool, nsxt_dhcp_relay_profile, nsxt_dhcp_relay_service,
     nsxt_dhcp_server_profile, nsxt_logical_dhcp_server, nsxt_logical_dhcp_port,
     nsxt_logical_port, nsxt_logical_router_centralized_service_port,
     nsxt_logical_router_downlink_port, nsxt_logical_router_link_port_on_tier0,
     nsxt_logical_router_link_port_on_tier1, nsxt_logical_tier0_router,
     nsxt_static_route, nsxt_lb_client_ssl_profile,
     nsxt_lb_cookie_persistence_profile, nsxt_lb_fast_tcp_application_profile,
     nsxt_lb_http_application_profile, nsxt_lb_http_forwarding_rule,
     nsxt_lb_http_monitor, nsxt_lb_http_request_rewrite_rule,
     nsxt_lb_http_response_rewrite_rule, nsxt_lb_http_virtual_server,
     nsxt_lb_https_monitor, nsxt_lb_passive_monitor, nsxt_lb_pool,
     nsxt_lb_server_ssl_profile, nsxt_lb_service,
     nsxt_lb_source_ip_persistence_profile, nsxt_lb_tcp_monitor,
     nsxt_lb_tcp_virtual_server, nsxt_lb_udp_monitor, nsxt_lb_udp_virtual_server,
     nsxt_ip_discovery_switching_profile, nsxt_mac_management_switching_profile,
     nsxt_qos_switching_profile, nsxt_spoofguard_switching_profile,
     nsxt_switch_security_switching_profile, nsxt_icmp_type_ns_service,
     nsxt_lb_fast_udp_application_profile, nsxt_lb_icmp_monitor,
     nsxt_firewall_section, nsxt_dhcp_server_ip_pool, nsxt_logical_switch,
     nsxt_vlan_logical_switch, nsxt_logical_tier1_router, nsxt_ip_block_subnet,
     nsxt_ip_pool_allocation_ip_address, nsxt_nat_rule, nsxt_compute_manager,
     nsxt_edge_cluster, nsxt_failure_domain, nsxt_edge_high_availability_profile,
     nsxt_principal_identity,
     nsxt_policy_role_binding, nsxt_policy_context_profile_custom_attribute,
     nsxt_policy_context_profile, nsxt_policy_dhcp_server,
     nsxt_policy_intrusion_service_profile, nsxt_policy_ip_discovery_profile,
     nsxt_policy_share, nsxt_policy_ipsec_vpn_dpd_profile,
     nsxt_policy_ipsec_vpn_ike_profile, nsxt_policy_ipsec_vpn_tunnel_profile,
     nsxt_policy_lb_service, nsxt_policy_lb_virtual_server,
     nsxt_policy_dhcp_v4_static_binding, nsxt_policy_dhcp_v6_static_binding,
     nsxt_policy_distributed_flood_protection_profile,
     nsxt_policy_distributed_flood_protection_profile_binding,
     nsxt_policy_gateway_flood_protection_profile, nsxt_policy_dns_forwarder_zone,
     nsxt_policy_domain, nsxt_policy_evpn_tenant, nsxt_policy_evpn_tunnel_endpoint,
     nsxt_policy_gateway_prefix_list, nsxt_policy_gateway_qos_profile,
     nsxt_policy_gateway_route_map, nsxt_policy_gateway_policy,
     nsxt_vpc_gateway_policy, nsxt_policy_intrusion_service_policy,
     nsxt_policy_ip_pool, nsxt_policy_ip_pool_static_subnet,
     nsxt_policy_ipsec_vpn_local_endpoint, nsxt_policy_ipsec_vpn_session,
     nsxt_policy_l2_vpn_service, nsxt_policy_l2_vpn_session,
     nsxt_policy_lb_client_ssl_profile, nsxt_policy_lb_http_application_profile,
     nsxt_policy_lb_http_monitor_profile, nsxt_policy_lb_https_monitor_profile,
     nsxt_policy_lb_icmp_monitor_profile, nsxt_policy_lb_passive_monitor_profile,
     nsxt_policy_lb_tcp_monitor_profile, nsxt_policy_lb_udp_monitor_profile,
     nsxt_policy_nat_rule, nsxt_policy_project, nsxt_policy_segment_security_profile,
     nsxt_policy_spoof_guard_profile, nsxt_policy_static_route,
     nsxt_policy_static_route_bfd_peer, nsxt_policy_vni_pool,
     nsxt_policy_tier0_inter_vrf_routing, nsxt_policy_transport_zone,
     nsxt_policy_group, nsxt_vpc_group, nsxt_policy_security_policy,
     nsxt_policy_parent_security_policy, nsxt_vpc_security_policy,
     nsxt_policy_bgp_neighbor, nsxt_policy_ip_address_allocation,
     nsxt_policy_qos_profile, nsxt_policy_security_policy_rule,
     nsxt_policy_ip_pool_block_subnet, nsxt_policy_host_transport_node,
     nsxt_policy_ospf_area, nsxt_policy_shared_resource,
     nsxt_policy_tier0_gateway_gre_tunnel, nsxt_policy_distributed_vlan_connection,
     nsxt_policy_gateway_connection, nsxt_policy_lb_pool, nsxt_policy_metadata_proxy,
     nsxt_policy_uplink_host_switch_profile, nsxt_policy_vtep_ha_host_switch_profile,
     nsxt_policy_dhcp_relay, nsxt_policy_ip_block, nsxt_policy_mac_discovery_profile,
     nsxt_policy_transit_gateway, nsxt_policy_transit_gateway_attachment,
     nsxt_policy_transit_gateway_nat_rule, nsxt_vpc_attachment, nsxt_policy_service,
     nsxt_policy_gateway_community_list, nsxt_policy_tier0_gateway_interface,
     nsxt_policy_tier1_gateway_interface, nsxt_policy_ipsec_vpn_service,
     nsxt_policy_tier0_gateway, nsxt_policy_tier1_gateway, nsxt_policy_segment,
     nsxt_policy_vlan_segment, nsxt_policy_fixed_segment, nsxt_policy_global_manager,
     nsxt_policy_site, nsxt_policy_compute_sub_cluster,
     nsxt_policy_host_transport_node_profile, nsxt_policy_role,
     nsxt_policy_ldap_identity_source, nsxt_policy_host_transport_node_collection,
     nsxt_policy_project_ip_address_allocation, nsxt_vpc,
     nsxt_vpc_connectivity_profile, nsxt_vpc_ip_address_allocation,
     nsxt_vpc_service_profile, nsxt_vpc_static_routes,
     nsxt_vpc_dhcp_v4_static_binding_config, nsxt_vpc_nat_rule, nsxt_vpc_subnet,
     nsxt_policy_evpn_config, nsxt_cluster_virtual_ip,
     nsxt_policy_predefined_gateway_policy, nsxt_policy_predefined_security_policy,
     nsxt_policy_ospf_config, nsxt_policy_bgp_config, nsxt_vpc_external_address,
     nsxt_edge_transport_node_rtep, nsxt_vm_tags, nsxt_policy_vm_tags,
     nsxt_policy_gateway_dns_forwarder,
     nsxt_policy_gateway_flood_protection_profile_binding}
=============================================================================
