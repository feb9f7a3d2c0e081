---------------------------- MODULE DataSources ----------------------------
(***************************************************************************)
(* How the data sources of the provider look an object up by its name: how *)
(* they list the objects, and which of the listed objects they take.       *)
(*                                                                         *)
(*   lists   "pages"   page after page, until as many objects have come as *)
(*                     the first page has announced                        *)
(*           "search"  the same, of a search by the name                   *)
(*           "offset"  the pages are asked for by number and end with an   *)
(*                     empty one                                           *)
(*           "once"    the first page only                                 *)
(*           "query"   the first page of a query by the name               *)
(*   picks   "only"    the one with the name                               *)
(*           "prefer"  the one with the name, or else the one whose name   *)
(*                     begins with it                                      *)
(*           "sum"     the one that is either, if it is alone              *)
(*           "first", "last"  of those that are either                     *)
(*           "all"     everything                                          *)
(***************************************************************************)
EXTENDS Naturals

Profile == [lists : {"pages", "search", "offset", "once", "query"},
            picks : {"only", "prefer", "sum", "first", "last", "all"}]

Pick(listing, rule) == [lists |-> listing, picks |-> rule]

-----------------------------------------------------------------------------
\* Listings.

handlePagination == "pages"
listGatewayPolicies == "pages"
listSecurityPolicies == "pages"
listVpcSubnetPorts == "pages"
listPolicyGatewayLocaleServices == "pages"
listAllPolicySegmentPorts == "pages"
listAllPolicyVifs == "pages"
searchGMPolicyResources == "search"
searchLM == "search"

\* "Contrary to the spec, this API does not populate cursor and result count".
listAllPolicyVirtualMachines == "offset"

-----------------------------------------------------------------------------
\* Shared by many.

policyDataSourceResourceRead == Pick(searchLM, "prefer")
policyDataSourceResourceReadGlobal == Pick(searchGMPolicyResources, "prefer")
upgradeGroupRead == Pick("once", "prefer")
findNsxtPolicyVMByNamePrefix == Pick(searchLM, "sum")

\* Before NSX 4.1.2.
findNsxtPolicyVMByID == Pick(listAllPolicyVirtualMachines, "first")

-----------------------------------------------------------------------------
\* By pages.

nsxt_certificate == Pick(handlePagination, "only")
nsxt_firewall_section == Pick(handlePagination, "only")
nsxt_ip_pool == Pick(handlePagination, "only")
nsxt_logical_tier0_router == Pick(handlePagination, "prefer")
nsxt_logical_tier1_router == Pick(handlePagination, "prefer")
nsxt_mac_pool == Pick(handlePagination, "only")
nsxt_ns_group == Pick(handlePagination, "only")
nsxt_ns_service == Pick(handlePagination, "only")
nsxt_switching_profile == Pick(handlePagination, "only")
nsxt_ns_groups == Pick(handlePagination, "all")
nsxt_ns_services == Pick(handlePagination, "all")
nsxt_policy_gateway_policy == Pick(listGatewayPolicies, "prefer")
nsxt_policy_security_policy == Pick(listSecurityPolicies, "prefer")

\* The port a VM is attached to.
nsxt_vpc_subnet_port == Pick(listVpcSubnetPorts, "first")
nsxt_policy_vm == findNsxtPolicyVMByNamePrefix
nsxt_policy_vms == Pick(listAllPolicyVirtualMachines, "all")

-----------------------------------------------------------------------------
\* The first page.

nsxt_compute_manager == Pick("once", "prefer")
nsxt_edge_cluster == Pick("once", "prefer")
nsxt_failure_domain == Pick("once", "prefer")
nsxt_manager_cluster_node == Pick("once", "prefer")
nsxt_transport_node == Pick("once", "prefer")
nsxt_transport_zone == Pick("once", "prefer")
nsxt_policy_ip_block == Pick("once", "prefer")
nsxt_policy_lb_app_profile == Pick("once", "prefer")
nsxt_policy_lb_client_ssl_profile == Pick("once", "prefer")
nsxt_policy_lb_monitor == Pick("once", "prefer")
nsxt_policy_lb_persistence_profile == Pick("once", "prefer")
nsxt_policy_lb_server_ssl_profile == Pick("once", "prefer")
nsxt_policy_project == Pick("once", "prefer")
nsxt_policy_transport_zone == Pick("once", "prefer")
nsxt_policy_vni_pool == Pick("once", "prefer")

\* Before NSX 3.2.0; after it, it is searched for.
nsxt_policy_edge_node == Pick("once", "prefer")
nsxt_edge_upgrade_group == upgradeGroupRead
nsxt_host_upgrade_group == upgradeGroupRead

\* Every match overwrites the one before.
nsxt_policy_host_transport_node_collection == Pick("once", "last")
nsxt_compute_collection == Pick("query", "only")

\* By its address.
nsxt_discovered_node == Pick("query", "first")

-----------------------------------------------------------------------------
\* By search.

nsxt_policy_bfd_profile == policyDataSourceResourceRead
nsxt_policy_bridge_profile == policyDataSourceResourceRead
nsxt_policy_certificate == policyDataSourceResourceRead
nsxt_policy_context_profile == policyDataSourceResourceRead
nsxt_policy_dhcp_server == policyDataSourceResourceRead
nsxt_policy_distributed_flood_protection_profile == policyDataSourceResourceRead
nsxt_policy_distributed_vlan_connection == policyDataSourceResourceRead
nsxt_policy_edge_cluster == policyDataSourceResourceRead
nsxt_policy_gateway_connection == policyDataSourceResourceRead
nsxt_policy_gateway_dns_forwarder == policyDataSourceResourceRead
nsxt_policy_gateway_flood_protection_profile == policyDataSourceResourceRead
nsxt_policy_gateway_locale_service == policyDataSourceResourceRead
nsxt_policy_gateway_prefix_list == policyDataSourceResourceRead
nsxt_policy_gateway_qos_profile == policyDataSourceResourceRead
nsxt_policy_gateway_route_map == policyDataSourceResourceRead
nsxt_policy_group == policyDataSourceResourceRead
nsxt_policy_host_transport_node == policyDataSourceResourceRead
nsxt_policy_host_transport_node_profile == policyDataSourceResourceRead
nsxt_policy_intrusion_service_profile == policyDataSourceResourceRead
nsxt_policy_ip_discovery_profile == policyDataSourceResourceRead
nsxt_policy_ip_pool == policyDataSourceResourceRead
nsxt_policy_ipsec_vpn_local_endpoint == policyDataSourceResourceRead
nsxt_policy_ipsec_vpn_service == policyDataSourceResourceRead
nsxt_policy_ipv6_dad_profile == policyDataSourceResourceRead
nsxt_policy_ipv6_ndra_profile == policyDataSourceResourceRead
nsxt_policy_l2_vpn_service == policyDataSourceResourceRead
nsxt_policy_lb_service == policyDataSourceResourceRead
nsxt_policy_mac_discovery_profile == policyDataSourceResourceRead
nsxt_policy_qos_profile == policyDataSourceResourceRead
nsxt_policy_segment == policyDataSourceResourceRead
nsxt_policy_segment_security_profile == policyDataSourceResourceRead
nsxt_policy_service == policyDataSourceResourceRead
nsxt_policy_site == policyDataSourceResourceRead
nsxt_policy_spoofguard_profile == policyDataSourceResourceRead
nsxt_policy_tier0_gateway == policyDataSourceResourceRead
nsxt_policy_tier1_gateway == policyDataSourceResourceRead
nsxt_policy_transit_gateway == policyDataSourceResourceRead
nsxt_policy_uplink_host_switch_profile == policyDataSourceResourceRead
nsxt_policy_vtep_ha_host_switch_profile == policyDataSourceResourceRead
nsxt_project_ip_address_allocation == policyDataSourceResourceRead
nsxt_vpc == policyDataSourceResourceRead
nsxt_vpc_connectivity_profile == policyDataSourceResourceRead
nsxt_vpc_group == policyDataSourceResourceRead
nsxt_vpc_ip_address_allocation == policyDataSourceResourceRead
nsxt_vpc_nat == policyDataSourceResourceRead
nsxt_vpc_service_profile == policyDataSourceResourceRead
nsxt_vpc_subnet == policyDataSourceResourceRead

-----------------------------------------------------------------------------
AllLookups ==
    {nsxt_certificate, nsxt_firewall_section, nsxt_ip_pool,
     nsxt_logical_tier0_router, nsxt_logical_tier1_router, nsxt_mac_pool,
     nsxt_ns_group, nsxt_ns_service, nsxt_switching_profile, nsxt_ns_groups,
     nsxt_ns_services, nsxt_policy_gateway_policy, nsxt_policy_security_policy,
     nsxt_vpc_subnet_port, nsxt_policy_vm, nsxt_policy_vms, nsxt_compute_manager,
     nsxt_edge_cluster, nsxt_failure_domain, nsxt_manager_cluster_node,
     nsxt_transport_node, nsxt_transport_zone, nsxt_policy_ip_block,
     nsxt_policy_lb_app_profile, nsxt_policy_lb_client_ssl_profile,
     nsxt_policy_lb_monitor, nsxt_policy_lb_persistence_profile,
     nsxt_policy_lb_server_ssl_profile, nsxt_policy_project,
     nsxt_policy_transport_zone, nsxt_policy_vni_pool, nsxt_policy_edge_node,
     nsxt_edge_upgrade_group, nsxt_host_upgrade_group,
     nsxt_policy_host_transport_node_collection, nsxt_compute_collection,
     nsxt_discovered_node, nsxt_policy_bfd_profile, nsxt_policy_bridge_profile,
     nsxt_policy_certificate, nsxt_policy_context_profile, nsxt_policy_dhcp_server,
     nsxt_policy_distributed_flood_protection_profile,
     nsxt_policy_distributed_vlan_connection, nsxt_policy_edge_cluster,
     nsxt_policy_gateway_connection, nsxt_policy_gateway_dns_forwarder,
     nsxt_policy_gateway_flood_protection_profile,
     nsxt_policy_gateway_locale_service, nsxt_policy_gateway_prefix_list,
     nsxt_policy_gateway_qos_profile, nsxt_policy_gateway_route_map,
     nsxt_policy_group, nsxt_policy_host_transport_node,
     nsxt_policy_host_transport_node_profile, nsxt_policy_intrusion_service_profile,
     nsxt_policy_ip_discovery_profile, nsxt_policy_ip_pool,
     nsxt_policy_ipsec_vpn_local_endpoint, nsxt_policy_ipsec_vpn_service,
     nsxt_policy_ipv6_dad_profile, nsxt_policy_ipv6_ndra_profile,
     nsxt_policy_l2_vpn_service, nsxt_policy_lb_service,
     nsxt_policy_mac_discovery_profile, nsxt_policy_qos_profile,
     nsxt_policy_segment, nsxt_policy_segment_security_profile, nsxt_policy_service,
     nsxt_policy_site, nsxt_policy_spoofguard_profile, nsxt_policy_tier0_gateway,
     nsxt_policy_tier1_gateway, nsxt_policy_transit_gateway,
     nsxt_policy_uplink_host_switch_profile,
     nsxt_policy_vtep_ha_host_switch_profile, nsxt_project_ip_address_allocation,
     nsxt_vpc, nsxt_vpc_connectivity_profile, nsxt_vpc_group,
     nsxt_vpc_ip_address_allocation, nsxt_vpc_nat, nsxt_vpc_service_profile,
     nsxt_vpc_subnet, policyDataSourceResourceReadGlobal, findNsxtPolicyVMByID}
=============================================================================
