SPECIFICATION MSpec
PROPERTIES
    NoLockout
    
    RadioDelivers
    GraphicsReturns
    
CHECK_DEADLOCK FALSE
