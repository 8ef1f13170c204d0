\* Violation: a VM datastore reference that does not resolve is dropped,
\* and the pass succeeds.
CONSTANTS
    dc1 = dc1  dc2 = dc2  dc3 = dc3  h1 = h1  h2 = h2  h3 = h3
    d1 = d1  d2 = d2  s1 = s1  s2 = s2  v1 = v1  c1 = c1  c2 = c2  p1 = p1  p2 = p2  p3 = p3
    Empty = Empty  NoDisk = NoDisk  NoDs = NoDs
    Datacenters <- MCDatacenters1
    HostsOf <- MCHostsOf1
    DiskNames <- MCDiskNames
    DsIds <- MCDsIds
    DsInfo <- MCDsInfo
    VmIds <- MCVmIds
    VmDatastores <- MCVmDatastores
    SnapIds <- MCSnapIds
    SnapChildren <- MCSnapChildren
    VmSnapshotRoots <- MCVmSnapshotRoots
    VsanUuids <- MCVsanUuids
    HostKinds <- VmRefKinds
    StructuralFailures = FALSE
SPECIFICATION Spec
INVARIANT VmDatastoresComplete
\* One pass of the crawl stops once it is "done" or "failed" and logged out.
CHECK_DEADLOCK FALSE
